---- MODULE Spec2Model ----
(***************************************************************************)
(* Verification model of the speech-to-speech translator pipeline.         *)
(* speech_to_text and _recognize_with_fallbacks model                      *)
(* src/speech-translator/module4/app.py; time is counted in ticks of       *)
(* 1/TicksPerSecond seconds so that fractional durations are covered.      *)
(* Text is a sequence of one-character strings so that str.strip and       *)
(* " ".join are computed, not assumed.                                     *)
(***************************************************************************)
EXTENDS Integers, Sequences, FiniteSets, TLC

\* ---------------------------------------------------------------- bounds
MaxFiles == 2
NLangs == 2
TicksPerSecond == 2
MaxDur == 6
MaxChunk == 2
MaxStuck == 2
ScenarioDur == 100 * TicksPerSecond
ScenarioChunk == 45

\* ------------------------------------------------------------ text values
Texts == { <<>>, <<" ">>, <<"a">>, <<" ", "b">> }

None == [some |-> FALSE, val |-> <<>>]
Some(v) == [some |-> TRUE, val |-> v]

\* Python truthiness of an Optional[str]: not None and not empty
Truthy(o) == o.some /\ o.val # <<>>

RECURSIVE LStrip(_)
LStrip(s) == IF s # <<>> /\ Head(s) = " " THEN LStrip(Tail(s)) ELSE s

RECURSIVE RStrip(_)
RStrip(s) == IF s # <<>> /\ s[Len(s)] = " " THEN RStrip(SubSeq(s, 1, Len(s) - 1)) ELSE s

\* str.strip()
Strip(s) == RStrip(LStrip(s))

\* " ".join(items)
RECURSIVE Join(_)
Join(items) ==
  IF items = <<>> THEN <<>>
  ELSE IF Len(items) = 1 THEN items[1]
  ELSE items[1] \o <<" ">> \o Join(Tail(items))

RECURSIVE MapStrip(_)
MapStrip(items) == IF items = <<>> THEN <<>> ELSE <<Strip(Head(items))>> \o MapStrip(Tail(items))

\* final_text = " ".join(t.strip() for t in texts if t).strip()
FinalText(ts) == Strip(Join(MapStrip(SelectSeq(ts, LAMBDA t : t # <<>>))))

\* ----------------------------------------------------- recognition ladder
Rungs == {"preferred", "auto", "en-US", "hi-IN"}

Raised == [raised |-> TRUE, val |-> <<>>]
Returned(t) == [raised |-> FALSE, val |-> t]
RungOutcomes == {Raised} \cup {Returned(t) : t \in Texts}

\* faulty variant: the English rung is tried before automatic detection
LadderPlanEnglishFirst(preferred_lang) ==
  IF preferred_lang # "None"
  THEN <<"preferred", "en-US", "auto", "hi-IN">>
  ELSE <<"en-US", "auto", "hi-IN">>

\* the order of the try blocks of _recognize_with_fallbacks
LadderPlan(preferred_lang) ==
  IF preferred_lang # "None"
  THEN <<"preferred", "auto", "en-US", "hi-IN">>
  ELSE <<"auto", "en-US", "hi-IN">>

\* one recognize_google call: the rung and what the backend did
Call(r, o) == [rung |-> r, raised |-> o.raised, val |-> o.val]

\* the try blocks from the i-th on: "return" on the first call that does not
\* raise, "except Exception: pass" otherwise, "return None" after the last
RECURSIVE TryFrom(_, _, _)
TryFrom(plan, out, i) ==
  IF i > Len(plan) THEN [tried |-> <<>>, ret |-> None]
  ELSE IF ~out[plan[i]].raised
       THEN [tried |-> <<Call(plan[i], out[plan[i]])>>, ret |-> Some(out[plan[i]].val)]
       ELSE LET rest == TryFrom(plan, out, i + 1) IN
            [tried |-> <<Call(plan[i], out[plan[i]])>> \o rest.tried, ret |-> rest.ret]

\* out[r] is what recognize_google does when rung r calls it
recognize_with_fallbacks(out, preferred_lang) == TryFrom(LadderPlan(preferred_lang), out, 1)

Min(a, b) == IF a < b THEN a ELSE b

\* faulty variant: the guard "if text" is missing
AppendTextUnguarded(ts, ret) == Append(ts, ret.val)

\* "if text: texts.append(text)"
AppendText(ts, ret) == IF Truthy(ret) THEN Append(ts, ret.val) ELSE ts

\* faulty variant: "or None" is missing
ReturnValueNoNone(ts) == Some(FinalText(ts))

\* "return final_text or None"
ReturnValue(ts) == IF FinalText(ts) # <<>> THEN Some(FinalText(ts)) ELSE None

\* ------------------------------------------------------------------ state
VARIABLES
  stt_pc,            \* position inside speech_to_text
  audio_dur,         \* real length of the audio file, in ticks
  max_chunk_seconds, \* parameter of speech_to_text, in seconds
  preferred_lang,    \* "None" or a Google language code
  total_duration,    \* what sf.info reported (0 on failure), in ticks
  offset,            \* loop variable, in ticks
  texts,             \* the list texts
  windows,           \* (offset, duration) of every recognizer.record call
  win_ret,           \* what the ladder returned for every window
  ladder,            \* recognize_google calls made for the latest window
  n_backend,         \* number of recognize_google calls so far
  io_failed,         \* an exception escaped to the outer except
  stt_result         \* return value of speech_to_text

stt_vars == <<stt_pc, audio_dur, max_chunk_seconds, preferred_lang, total_duration,
              offset, texts, windows, win_ret, ladder, n_backend, io_failed, stt_result>>

\* ------------------------------------------------ state of convert_to_wav
VARIABLES
  conv_mod,          \* whose convert_to_wav runs: "batch", "realtime" or "web"
  conv_pc,           \* position inside convert_to_wav
  audio_file,        \* the source: extension, format, whether any decoder reads it
  librosa_available, \* LIBROSA_AVAILABLE of the batch module
  tmp,               \* the file at the path tmp
  conv_log,          \* the decoding backends invoked so far, with their outcome
  e1,                \* e1 of the web module: librosa's message, if any
  e2,                \* e2 of the web module: pydub's message, if any
  error_msg,         \* backends whose message the printed error_msg holds
  conv_ret           \* return value of convert_to_wav

conv_vars == <<conv_mod, conv_pc, audio_file, librosa_available, tmp, conv_log,
               e1, e2, error_msg, conv_ret>>

\* ------------------------------------------ state of the synthesis adapters
VARIABLES
  tts_mod,            \* whose adapter runs: "batch" (tts), "realtime" or "web"
  tts_pc,             \* position inside the adapter
  lang_code,          \* the target language passed in
  gender,             \* the gender passed in (web module)
  edge_tts_available, \* EDGE_TTS_AVAILABLE of the web module
  tts_available,      \* TTS_AVAILABLE of the real-time module
  output_file,        \* the file at output_path
  tts_log,            \* the synthesis backends called, with what they did
  tts_ret             \* return value: "pending", "True" or "False"

tts_vars == <<tts_mod, tts_pc, lang_code, gender, edge_tts_available, tts_available,
              output_file, tts_log, tts_ret>>

\* ------------------------------------- state of the drivers and the routes
VARIABLES
  p_kind,        \* "batch" (module 2 main), "realtime" (module 3 batch), or a route
  p_files,       \* the input file names, each a sequence of dot-separated parts
  p_langs,       \* the target languages, in the order they are iterated
  p_save_output, \* save_output of realtime_translate_audio_file
  p_deps_ok,     \* what check_dependencies returns
  p_request,     \* the text, url and audio duration an HTTP request carries
  p_pc,          \* position inside the driver or route
  p_i,           \* index of the current file or chunk
  p_j,           \* index of the current target language
  p_wav,         \* what convert_to_wav returned: "unset", "None", "tmp" or "src"
  p_text,        \* the recognized text
  p_translations,\* the dict translations of the batch driver
  p_translated,  \* the translated text of the current request
  p_tmp_exists,  \* the temporary WAV of the current invocation exists
  p_present,     \* indices of the input files that still exist
  p_calls,       \* the adapter calls made so far
  p_outputs,     \* the audio files written by successful synthesis
  p_log_entries, \* log_entries of the batch driver
  p_results,     \* the results list (module 3, /youtube_translate)
  p_windows,     \* (start, end) of every youtube_transcribe_chunk call, in ms
  p_status,      \* HTTP status of the response, 0 before it is sent
  p_body         \* kind of the response body

pipe_vars == <<p_kind, p_files, p_langs, p_save_output, p_deps_ok, p_request, p_pc, p_i, p_j, p_wav,
               p_text, p_translations, p_translated, p_tmp_exists, p_present, p_calls,
               p_outputs, p_log_entries, p_results, p_windows, p_status, p_body>>

\* --------------------------------------------- state of two concurrent runs
VARIABLES
  c_kind,     \* per run: "batch", "realtime", "upload", "mic_record" or "youtube"
  c_input,    \* per run: the name of its input file (the audio of its url)
  c_lang,     \* per run: the target language
  c_pc,       \* per run: position in the pipeline
  c_fs,       \* the file system: which run's content each existing path holds
  c_written,  \* the writes made so far, as [run, path]
  c_heard     \* per run: whose audio its recognition read (0: nothing yet, -1: no file)

conc_vars == <<c_kind, c_input, c_lang, c_pc, c_fs, c_written, c_heard>>

\* ------------------------------------ state of youtube_transcribe_chunk
VARIABLES
  k_pc,       \* position inside youtube_transcribe_chunk
  k_window,   \* start_ms and end_ms
  k_chunk,    \* the file at the path tmp_chunk
  k_created,  \* sf.write has put a file at tmp_chunk during this call
  k_path,     \* how the try block was left
  k_ret       \* the returned string

chunk_vars == <<k_pc, k_window, k_chunk, k_created, k_path, k_ret>>

vars == <<stt_vars, conv_vars, tts_vars, pipe_vars, conc_vars, chunk_vars>>

\* the variables each component leaves alone
outside_stt == <<conv_vars, tts_vars, pipe_vars, conc_vars, chunk_vars>>
outside_conv == <<stt_vars, tts_vars, pipe_vars, conc_vars, chunk_vars>>
outside_tts == <<stt_vars, conv_vars, pipe_vars, conc_vars, chunk_vars>>
outside_pipe == <<stt_vars, conv_vars, tts_vars, conc_vars, chunk_vars>>
outside_conc == <<stt_vars, conv_vars, tts_vars, pipe_vars, chunk_vars>>
outside_chunk == <<stt_vars, conv_vars, tts_vars, pipe_vars, conc_vars>>

MaxWindows == MaxDur + 1

\* iterations explored of the while loop: all of them when the windows
\* advance, MaxStuck when max_chunk_seconds is not positive
WindowCap == IF max_chunk_seconds >= 1 THEN MaxWindows ELSE MaxStuck

ChunkTicks == max_chunk_seconds * TicksPerSecond

\* "if total_duration and total_duration > max_chunk_seconds"
UseChunks(d) == d # 0 /\ d > ChunkTicks

\* faulty variant: the loop stops before a final, shorter window
LoopContinuesFullOnly(off) == off + ChunkTicks < total_duration

\* "while offset < total_duration"
LoopContinues(off) == off < total_duration

\* faulty variant: the last window is not cut to the end of the audio
ChunkDurationNoMin(off) == ChunkTicks

\* "duration = min(max_chunk_seconds, total_duration - offset)"
ChunkDuration(off) == Min(ChunkTicks, total_duration - off)

SttInputs ==
  ((0..MaxDur) \X (1..MaxChunk)) \cup {<<ScenarioDur, ScenarioChunk>>}

\* max_chunk_seconds is not validated: zero and a negative value
SttInputsAny == (0..MaxDur) \X (-1..0)

SttStart(inputs) ==
  /\ \E in \in inputs : audio_dur = in[1] /\ max_chunk_seconds = in[2]
  /\ preferred_lang \in {"None", "hi-IN"}
  /\ stt_pc = "start"
  /\ total_duration = 0
  /\ offset = 0
  /\ texts = <<>>
  /\ windows = <<>>
  /\ win_ret = <<>>
  /\ ladder = <<>>
  /\ n_backend = 0
  /\ io_failed = FALSE
  /\ stt_result = None

SttInit == SttStart(SttInputs)

SttInitAny == SttStart(SttInputsAny)

\* app.py 284-293: sf.info, then the choice between chunked and single
SttBegin ==
  /\ stt_pc = "start"
  /\ \E info_ok \in BOOLEAN :
       /\ total_duration' = IF info_ok THEN audio_dur ELSE 0
       /\ stt_pc' = IF UseChunks(total_duration') THEN "chunk" ELSE "single"
  /\ offset' = 0
  /\ UNCHANGED <<audio_dur, max_chunk_seconds, preferred_lang, texts, windows,
                 win_ret, ladder, n_backend, io_failed, stt_result>>
  /\ UNCHANGED outside_stt

\* the part shared by both branches: record, ladder, "if text: texts.append"
Recognize(off, dur, out) ==
  LET r == recognize_with_fallbacks(out, preferred_lang) IN
  /\ windows' = Append(windows, [offset |-> off, duration |-> dur])
  /\ win_ret' = Append(win_ret, r.ret)
  /\ ladder' = r.tried
  /\ n_backend' = n_backend + Len(r.tried)
  /\ texts' = AppendText(texts, r.ret)

\* an exception of sr.AudioFile / recognizer.record reaches "except Exception"
SttRaise ==
  /\ io_failed' = TRUE
  /\ stt_result' = None
  /\ stt_pc' = "done"
  /\ UNCHANGED <<texts, windows, win_ret, ladder, n_backend>>

\* app.py 296-307: one iteration of the while loop
SttChunk ==
  /\ stt_pc = "chunk"
  /\ LoopContinues(offset)
  /\ Len(windows) < WindowCap
  /\ LET duration == ChunkDuration(offset) IN
       \E read_ok \in BOOLEAN, out \in [Rungs -> RungOutcomes] :
         IF read_ok
         THEN /\ Recognize(offset, duration, out)
              /\ offset' = offset + duration
              /\ stt_pc' = IF LoopContinues(offset') THEN "chunk" ELSE "join"
              /\ UNCHANGED <<io_failed, stt_result>>
         ELSE /\ SttRaise
              /\ UNCHANGED offset
  /\ UNCHANGED <<audio_dur, max_chunk_seconds, preferred_lang, total_duration>>
  /\ UNCHANGED outside_stt

\* app.py 309-317: the whole file as one unit
SttSingle ==
  /\ stt_pc = "single"
  /\ \E read_ok \in BOOLEAN, out \in [Rungs -> RungOutcomes] :
       IF read_ok
       THEN /\ Recognize(0, audio_dur, out)
            /\ stt_pc' = "join"
            /\ UNCHANGED <<io_failed, stt_result>>
       ELSE SttRaise
  /\ UNCHANGED <<audio_dur, max_chunk_seconds, preferred_lang, total_duration, offset>>
  /\ UNCHANGED outside_stt

\* app.py 319-320: final_text or None
SttReturn ==
  /\ stt_pc = "join"
  /\ stt_result' = ReturnValue(texts)
  /\ stt_pc' = "done"
  /\ UNCHANGED <<audio_dur, max_chunk_seconds, preferred_lang, total_duration, offset,
                 texts, windows, win_ret, ladder, n_backend, io_failed>>
  /\ UNCHANGED outside_stt

SttNext == SttBegin \/ SttChunk \/ SttSingle \/ SttReturn

\* speech_to_text is not running
SttOff ==
  /\ stt_pc = "off" /\ audio_dur = 0 /\ max_chunk_seconds = ScenarioChunk
  /\ preferred_lang = "None" /\ total_duration = 0 /\ offset = 0
  /\ texts = <<>> /\ windows = <<>> /\ win_ret = <<>> /\ ladder = <<>>
  /\ n_backend = 0 /\ io_failed = FALSE /\ stt_result = None

\* ------------------------------------------------------- convert_to_wav
MinWavBytes == 100

\* extensions of the audio files of the model
Exts == {"wav", "mp3", "m4a", "mp4"}

\* app.py 110: the extensions that get the first moviepy attempt
MoviepyExts == {"m4a", "mp4", "mov", "webm", "avi", "mkv", "flv"}

\* module2_batch_translator.py 65: the extensions of the librosa fallback
BatchLibrosaExts == {"mp3", "m4a", "flac", "ogg"}

NoFile == [exists |-> FALSE, size |-> 0]
File(n) == [exists |-> TRUE, size |-> n]
Sizes == {0, MinWavBytes, MinWavBytes + 1}
TmpFiles == {NoFile} \cup {File(n) : n \in Sizes}

\* what a backend that raised may leave at tmp
Leftover(t) == {t, File(0), File(MinWavBytes)}

\* every backend is asked for 16 kHz mono
Canonical == [channels |-> 1, rate |-> 16000]

Pending == [kind |-> "pending", channels |-> 0, rate |-> 0, errors |-> {}]
\* "return tmp"
RetTmp == [kind |-> "tmp", channels |-> Canonical.channels, rate |-> Canonical.rate,
           errors |-> {}]
\* "return audio_file" / "return src": the source as it is
RetSrc == [kind |-> "src", channels |-> audio_file.channels, rate |-> audio_file.rate,
           errors |-> {}]
\* "return None": the value carries no message
RetNone == [kind |-> "None", channels |-> 0, rate |-> 0, errors |-> {}]

\* app.py 139, 248: os.path.exists(tmp) and os.path.getsize(tmp) > 100
MoviepyAccepts(t) == t.exists /\ t.size > MinWavBytes

\* app.py 164: returncode == 0 and os.path.exists(tmp) and os.path.getsize(tmp) > 0
FfmpegAccepts(rc, t) == rc = 0 /\ t.exists /\ t.size > 0

\* faulty variant: pydub is tried before librosa
NextStepPydubFirst(step) ==
  CASE step = "moviepy" -> "ffmpeg"
    [] step = "ffmpeg" -> "pydub"
    [] step = "pydub" -> "librosa"
    [] step = "librosa" -> "moviepy_final"
    [] step = "moviepy_final" -> "last_resort"
    [] OTHER -> "done"

\* the order of the blocks of the web module's convert_to_wav
NextStep(step) ==
  CASE step = "moviepy" -> "ffmpeg"
    [] step = "ffmpeg" -> "librosa"
    [] step = "librosa" -> "pydub"
    [] step = "pydub" -> "moviepy_final"
    [] step = "moviepy_final" -> "last_resort"
    [] OTHER -> "done"

Logged(b, ok) == [backend |-> b, ok |-> ok]

ConvInit ==
  /\ conv_mod \in {"batch", "realtime", "web"}
  /\ audio_file \in [ext : Exts, channels : {1, 2}, rate : {16000, 44100},
                     decodable : BOOLEAN]
  /\ librosa_available \in BOOLEAN
  /\ conv_mod # "batch" => librosa_available
  /\ conv_pc = IF conv_mod = "web" THEN "moviepy" ELSE "start"
  /\ tmp = NoFile
  /\ conv_log = <<>>
  /\ e1 = FALSE /\ e2 = FALSE
  /\ error_msg = {}
  /\ conv_ret = Pending

\* convert_to_wav is not running
ConvOff ==
  /\ conv_mod = "off" /\ conv_pc = "off"
  /\ audio_file = [ext |-> "wav", channels |-> 1, rate |-> 16000, decodable |-> TRUE]
  /\ librosa_available = TRUE /\ tmp = NoFile /\ conv_log = <<>>
  /\ e1 = FALSE /\ e2 = FALSE /\ error_msg = {} /\ conv_ret = Pending

ConvFrame == UNCHANGED <<conv_mod, audio_file, librosa_available>> /\ UNCHANGED outside_conv

\* a block returned tmp
ConvReturnTmp(b) ==
  /\ conv_log' = Append(conv_log, Logged(b, TRUE))
  /\ conv_ret' = RetTmp
  /\ conv_pc' = "done"

\* a block failed and control falls to the next block
ConvFallThrough(b) ==
  /\ conv_log' = Append(conv_log, Logged(b, FALSE))
  /\ conv_ret' = conv_ret
  /\ conv_pc' = NextStep(conv_pc)

\* AudioFileClip(...).write_audiofile(tmp, ...) and the size check after it
MoviepyAttempt(b) ==
  \E raised \in BOOLEAN, t \in TmpFiles :
    /\ ~audio_file.decodable => raised
    /\ raised => t \in Leftover(tmp)
    /\ tmp' = t
    /\ IF ~raised /\ MoviepyAccepts(t) THEN ConvReturnTmp(b) ELSE ConvFallThrough(b)

\* app.py 109-151: moviepy first, for container extensions only
WebMoviepyFirst ==
  /\ conv_mod = "web" /\ conv_pc = "moviepy"
  /\ IF audio_file.ext \in MoviepyExts
     THEN MoviepyAttempt("moviepy")
     ELSE /\ conv_pc' = NextStep(conv_pc)
          /\ UNCHANGED <<tmp, conv_log, conv_ret>>
  /\ UNCHANGED <<e1, e2, error_msg>>
  /\ ConvFrame

\* app.py 153-170: "ffmpeg -version", then the conversion command
WebFfmpeg ==
  /\ conv_mod = "web" /\ conv_pc = "ffmpeg"
  /\ \E probe_ok \in BOOLEAN, raised \in BOOLEAN, rc \in {0, 1}, t \in TmpFiles :
       /\ ~audio_file.decodable => (rc = 1 \/ raised \/ ~probe_ok)
       /\ (raised \/ rc = 1) => t \in Leftover(tmp)
       /\ rc = 0 => t.exists
       /\ tmp' = IF probe_ok THEN t ELSE tmp
       /\ IF probe_ok /\ ~raised /\ FfmpegAccepts(rc, t)
          THEN ConvReturnTmp("ffmpeg") ELSE ConvFallThrough("ffmpeg")
  /\ UNCHANGED <<e1, e2, error_msg>>
  /\ ConvFrame

\* app.py 172-202: librosa.load (with the retries for .m4a) and sf.write
WebLibrosa ==
  /\ conv_mod = "web" /\ conv_pc = "librosa"
  /\ \E loaded \in BOOLEAN, retry_loaded \in BOOLEAN, written \in BOOLEAN,
        n \in Sizes \ {0} :
       LET y_ok == loaded \/ (audio_file.ext = "m4a" /\ retry_loaded)
           ok == y_ok /\ written
       IN
       /\ ~audio_file.decodable => ~y_ok
       /\ IF ok
          THEN /\ tmp' = File(n)
               /\ ConvReturnTmp("librosa")
               /\ e1' = e1
          ELSE /\ tmp' \in (IF y_ok THEN Leftover(tmp) ELSE {tmp})
               /\ ConvFallThrough("librosa")
               /\ e1' = TRUE
  /\ UNCHANGED <<e2, error_msg>>
  /\ ConvFrame

\* app.py 204-228: pydub with a format hint from the extension
WebPydub ==
  /\ conv_mod = "web" /\ conv_pc = "pydub"
  /\ \E read \in BOOLEAN, exported \in BOOLEAN, n \in Sizes \ {0} :
       /\ ~audio_file.decodable => ~read
       /\ IF read /\ exported
          THEN /\ tmp' = File(n)
               /\ ConvReturnTmp("pydub")
               /\ e2' = e2
          ELSE /\ tmp' \in (IF read THEN Leftover(tmp) ELSE {tmp})
               /\ ConvFallThrough("pydub")
               /\ e2' = TRUE
  /\ UNCHANGED <<e1, error_msg>>
  /\ ConvFrame

\* app.py 230-252: moviepy again, whatever the extension
WebMoviepyFinal ==
  /\ conv_mod = "web" /\ conv_pc = "moviepy_final"
  /\ MoviepyAttempt("moviepy_final")
  /\ UNCHANGED <<e1, e2, error_msg>>
  /\ ConvFrame

\* app.py 254-268: a .wav source is returned as it is, anything else is None
WebLastResort ==
  /\ conv_mod = "web" /\ conv_pc = "last_resort"
  /\ IF audio_file.ext = "wav"
     THEN /\ conv_ret' = RetSrc
          /\ error_msg' = error_msg
     ELSE /\ conv_ret' = RetNone
          /\ error_msg' = (IF e1 THEN {"librosa"} ELSE {}) \cup (IF e2 THEN {"pydub"} ELSE {})
  /\ conv_pc' = "done"
  /\ UNCHANGED <<tmp, conv_log, e1, e2>>
  /\ ConvFrame

\* module2_batch_translator.py 49-83
BatchConvertToWav ==
  /\ conv_mod = "batch" /\ conv_pc = "start"
  /\ conv_pc' = "done"
  /\ IF audio_file.ext = "wav"
     THEN /\ conv_ret' = RetSrc
          /\ UNCHANGED <<tmp, conv_log>>
     ELSE \E pydub_ok \in BOOLEAN, librosa_ok \in BOOLEAN, n \in Sizes \ {0} :
            /\ ~audio_file.decodable => (~pydub_ok /\ ~librosa_ok)
            /\ IF pydub_ok
               THEN /\ tmp' = File(n)
                    /\ conv_log' = <<Logged("pydub", TRUE)>>
                    /\ conv_ret' = RetTmp
               ELSE IF librosa_available /\ audio_file.ext \in BatchLibrosaExts
               THEN /\ conv_log' = <<Logged("pydub", FALSE), Logged("librosa", librosa_ok)>>
                    /\ tmp' = (IF librosa_ok THEN File(n) ELSE tmp)
                    /\ conv_ret' = (IF librosa_ok THEN RetTmp ELSE RetNone)
               ELSE /\ conv_log' = <<Logged("pydub", FALSE)>>
                    /\ tmp' = tmp
                    /\ conv_ret' = RetNone
  /\ UNCHANGED <<e1, e2, error_msg>>
  /\ ConvFrame

\* module3_ott_realtime.py 95-116
RealtimeConvertToWav ==
  /\ conv_mod = "realtime" /\ conv_pc = "start"
  /\ conv_pc' = "done"
  /\ \E librosa_ok \in BOOLEAN, n \in Sizes \ {0} :
       /\ ~audio_file.decodable => ~librosa_ok
       /\ conv_log' = <<Logged("librosa", librosa_ok)>>
       /\ tmp' = (IF librosa_ok THEN File(n) ELSE tmp)
       /\ conv_ret' = (IF librosa_ok THEN RetTmp
                       ELSE IF audio_file.ext = "wav" THEN RetSrc ELSE RetNone)
  /\ UNCHANGED <<e1, e2, error_msg>>
  /\ ConvFrame

ConvNext ==
  \/ WebMoviepyFirst \/ WebFfmpeg \/ WebLibrosa \/ WebPydub \/ WebMoviepyFinal
  \/ WebLastResort \/ BatchConvertToWav \/ RealtimeConvertToWav

\* ------------------------------------------------------ synthesis adapters
\* TARGET_LANGS, in the order of the table
LangOrder == <<"en", "hi", "pa", "mr", "kn", "te", "ta", "gu", "ml", "bn", "or", "ur">>

TARGET_LANGS == {LangOrder[i] : i \in 1..Len(LangOrder)}

\* language codes a caller may pass: the table and one code outside it
LangCodes == TARGET_LANGS \cup {"fr"}

Genders == {"male", "female", "unknown"}

Voices(m, f) == [male |-> m, female |-> f]

\* faulty variant: the table has no entry for Odia
VoiceMapNoOdia ==
  ("en" :> Voices("en-US-GuyNeural", "en-US-AriaNeural")) @@
  ("hi" :> Voices("hi-IN-MadhurNeural", "hi-IN-SwaraNeural")) @@
  ("mr" :> Voices("mr-IN-ManoharNeural", "mr-IN-AarohiNeural")) @@
  ("ta" :> Voices("ta-IN-ValluvarNeural", "ta-IN-PallaviNeural")) @@
  ("te" :> Voices("te-IN-MohanNeural", "te-IN-ShrutiNeural")) @@
  ("kn" :> Voices("kn-IN-GaganNeural", "kn-IN-SapnaNeural")) @@
  ("gu" :> Voices("gu-IN-NiranjanNeural", "gu-IN-DhwaniNeural")) @@
  ("ml" :> Voices("ml-IN-MidhunNeural", "ml-IN-SobhanaNeural")) @@
  ("bn" :> Voices("bn-IN-BashkarNeural", "bn-IN-TanishaaNeural")) @@
  ("ur" :> Voices("ur-PK-AsadNeural", "ur-PK-UzmaNeural")) @@
  ("pa" :> Voices("pa-IN-GurpreetNeural", "pa-IN-GurpreetNeural"))

\* voice_map of get_edge_tts_voice
VoiceMap ==
  ("en" :> Voices("en-US-GuyNeural", "en-US-AriaNeural")) @@
  ("hi" :> Voices("hi-IN-MadhurNeural", "hi-IN-SwaraNeural")) @@
  ("mr" :> Voices("mr-IN-ManoharNeural", "mr-IN-AarohiNeural")) @@
  ("ta" :> Voices("ta-IN-ValluvarNeural", "ta-IN-PallaviNeural")) @@
  ("te" :> Voices("te-IN-MohanNeural", "te-IN-ShrutiNeural")) @@
  ("kn" :> Voices("kn-IN-GaganNeural", "kn-IN-SapnaNeural")) @@
  ("gu" :> Voices("gu-IN-NiranjanNeural", "gu-IN-DhwaniNeural")) @@
  ("ml" :> Voices("ml-IN-MidhunNeural", "ml-IN-SobhanaNeural")) @@
  ("bn" :> Voices("bn-IN-BashkarNeural", "bn-IN-TanishaaNeural")) @@
  ("ur" :> Voices("ur-PK-AsadNeural", "ur-PK-UzmaNeural")) @@
  ("pa" :> Voices("pa-IN-GurpreetNeural", "pa-IN-GurpreetNeural")) @@
  ("or" :> Voices("or-IN-LekhaNeural", "or-IN-LekhaNeural"))

\* app.py 424-489; "None" stands for None
get_edge_tts_voice(lang, g) ==
  IF ~edge_tts_available THEN "None"
  ELSE IF lang \in DOMAIN VoiceMap
       THEN (IF g \in {"male", "female"} THEN VoiceMap[lang][g] ELSE VoiceMap[lang]["male"])
       ELSE "None"

\* app.py 524-528, module3_ott_realtime.py 222-229: the language handed to gTTS
GttsLangSubstituted(lang) == IF lang = "pa" \/ lang = "or" THEN "hi" ELSE lang

\* module2_batch_translator.py 116: gTTS(text=text, lang=lang)
GttsLangBatch(lang) == lang

\* faulty variant: an empty file counts as synthesized
EdgeAcceptsEmpty(f) == f.exists

\* app.py 513: os.path.exists(output_path) and os.path.getsize(output_path) > 0
EdgeAccepts(f) == f.exists /\ f.size > 0

\* what a synthesis backend that raised may leave at output_path
Partial(f) == {f, File(0), File(1)}

\* one backend call: which backend, the voice or language it was given,
\* whether it raised and the size of the file it left (-1: no file)
Synth(b, v, raised, f) ==
  [backend |-> b, voice |-> v, raised |-> raised, size |-> IF f.exists THEN f.size ELSE -1]

TtsInit ==
  /\ tts_mod \in {"batch", "realtime", "web"}
  /\ tts_pc = IF tts_mod = "web" THEN "edge" ELSE "start"
  /\ lang_code \in LangCodes
  /\ gender \in Genders
  /\ tts_mod # "web" => gender = "male"
  /\ edge_tts_available \in BOOLEAN
  /\ tts_mod # "web" => ~edge_tts_available
  /\ tts_available \in BOOLEAN
  /\ tts_mod # "realtime" => tts_available
  /\ output_file = NoFile
  /\ tts_log = <<>>
  /\ tts_ret = "pending"

\* no synthesis adapter is running
TtsOff ==
  /\ tts_mod = "off" /\ tts_pc = "off" /\ lang_code = "hi" /\ gender = "male"
  /\ edge_tts_available = FALSE /\ tts_available = TRUE
  /\ output_file = NoFile /\ tts_log = <<>> /\ tts_ret = "pending"

TtsFrame ==
  UNCHANGED <<tts_mod, lang_code, gender, edge_tts_available, tts_available>>
  /\ UNCHANGED outside_tts

\* app.py 496-518: edge-tts, when installed and a voice is mapped
WebTtsEdge ==
  /\ tts_mod = "web" /\ tts_pc = "edge"
  /\ LET voice == get_edge_tts_voice(lang_code, gender) IN
     IF edge_tts_available /\ voice # "None"
     THEN \E raised \in BOOLEAN, f \in {File(0), File(1), File(2)} \cup {output_file} :
            /\ raised => f \in Partial(output_file)
            /\ ~raised => f.exists
            /\ output_file' = f
            /\ tts_log' = Append(tts_log, Synth("edge", voice, raised, f))
            /\ IF ~raised /\ EdgeAccepts(f)
               THEN tts_ret' = "True" /\ tts_pc' = "done"
               ELSE tts_ret' = tts_ret /\ tts_pc' = "gtts"
     ELSE /\ tts_pc' = "gtts"
          /\ UNCHANGED <<output_file, tts_log, tts_ret>>
  /\ TtsFrame

\* gTTS(text, lang).save(path): returns normally with the file written, or raises
GttsCall(lang) ==
  \E raised \in BOOLEAN, f \in {File(2)} \cup Partial(output_file) :
    /\ raised => f \in Partial(output_file)
    /\ ~raised => f = File(2)
    /\ output_file' = f
    /\ tts_log' = Append(tts_log, Synth("gtts", lang, raised, f))
    /\ tts_ret' = IF raised THEN "False" ELSE "True"
    /\ tts_pc' = "done"

\* app.py 520-534
WebTtsGtts ==
  /\ tts_mod = "web" /\ tts_pc = "gtts"
  /\ GttsCall(GttsLangSubstituted(lang_code))
  /\ TtsFrame

\* module2_batch_translator.py 113-121
BatchTts ==
  /\ tts_mod = "batch" /\ tts_pc = "start"
  /\ GttsCall(GttsLangBatch(lang_code))
  /\ TtsFrame

\* module3_ott_realtime.py 207-235
RealtimeTts ==
  /\ tts_mod = "realtime" /\ tts_pc = "start"
  /\ IF tts_available
     THEN GttsCall(GttsLangSubstituted(lang_code))
     ELSE /\ tts_ret' = "False" /\ tts_pc' = "done"
          /\ UNCHANGED <<output_file, tts_log>>
  /\ TtsFrame

TtsNext == WebTtsEdge \/ WebTtsGtts \/ BatchTts \/ RealtimeTts

\* ------------------------------------------------- drivers: common parts
\* file names of the model: "talk.wav", "song.mp3", "a.b.mp3"
FileNames == { <<"talk", "wav">>, <<"song", "mp3">>, <<"a", "b", "mp3">> }

ExtOf(name) == name[Len(name)]

\* os.path.splitext(os.path.basename(file))[0] and Path(file).stem: the name
\* without its last extension, the remaining parts joined by "."
RECURSIVE Dotted(_)
Dotted(parts) ==
  IF Len(parts) <= 1 THEN parts
  ELSE <<Head(parts), ".">> \o Dotted(Tail(parts))

StemOf(name) == Dotted(SubSeq(name, 1, Len(name) - 1))

\* faulty variant: the language code is left out of the name
BatchOutNameNoLang(name, code) ==
  [dir |-> "outputs", name |-> StemOf(name) \o <<".mp3">>]

\* module2_batch_translator.py 179, module3_ott_realtime.py 304
BatchOutName(name, code) ==
  [dir |-> "outputs", name |-> StemOf(name) \o <<"_", code, ".mp3">>]

\* app.py 600-601
UploadOutName(name, code) ==
  [dir |-> "static", name |-> <<"translated_", code, "_">> \o StemOf(name) \o <<".mp3">>]

\* app.py 640-641, 699-700
LiveOutName(code) ==
  [dir |-> "static", name |-> <<"translated_live_", code, ".mp3">>]

\* what speech_to_text may return
SttResults == {None, Some(<<>>), Some(<<"a">>)}

\* what GoogleTranslator(...).translate does: it raises, or returns a string
TranslateOutcomes == {Raised, Returned(<<>>), Returned(<<"x">>)}

\* module2_batch_translator.py 103-111, app.py 352-360, module3 187-205:
\* the result of the backend, or None after "except Exception"
translate_text(text, target_lang, backend) ==
  IF backend.raised THEN None ELSE Some(backend.val)

TrResults ==
  {translate_text(<<"a">>, c, o) : c \in TARGET_LANGS, o \in TranslateOutcomes}

\* an adapter call: stage, file index, language, text argument, outcome
Made(stage, i, code, arg, ok) ==
  [stage |-> stage, file |-> i, lang |-> code, arg |-> arg, ok |-> ok]

\* module2_batch_translator.py 136-141
MAX_FILES == 45

Truncated(found) == SubSeq(found, 1, Min(Len(found), MAX_FILES))

\* lists of distinct file names, as glob returns them
FileLists ==
  { fs \in UNION { [1..n -> FileNames] : n \in 1..MaxFiles } :
      \A a, b \in 1..Len(fs) : a # b => fs[a] # fs[b] }

BatchLangs == SubSeq(LangOrder, 1, NLangs)

NoTranslations == [c \in {} |-> <<>>]

NoRequest == [json |-> TRUE, text |-> <<>>, url |-> <<>>, duration_ms |-> 0]

PipeInitCommon ==
  /\ p_i = 1 /\ p_j = 1
  /\ p_wav = "unset"
  /\ p_text = None
  /\ p_translations = NoTranslations
  /\ p_translated = None
  /\ p_tmp_exists = FALSE
  /\ p_calls = <<>>
  /\ p_outputs = {}
  /\ p_log_entries = <<>>
  /\ p_results = <<>>
  /\ p_windows = <<>>
  /\ p_status = 0
  /\ p_body = "none"

\* no driver or route is running
PipeOff ==
  /\ p_kind = "off" /\ p_files = <<>> /\ p_langs = <<>>
  /\ p_save_output = TRUE /\ p_deps_ok = TRUE /\ p_pc = "off"
  /\ p_request = NoRequest
  /\ p_present = {}
  /\ PipeInitCommon

\* what every action but the chunk loop of /youtube_translate leaves alone
PipeParams ==
  /\ UNCHANGED <<p_kind, p_files, p_langs, p_save_output, p_deps_ok, p_request>>
  /\ UNCHANGED outside_pipe

PipeFrame == PipeParams /\ UNCHANGED p_windows

\* ---------------------------------------- module 2: main, the batch driver
BatchInit ==
  /\ p_kind = "batch"
  /\ p_files \in {Truncated(fs) : fs \in FileLists}
  /\ p_langs = BatchLangs
  /\ p_save_output = TRUE /\ p_deps_ok = TRUE
  /\ p_request = NoRequest
  /\ p_present = 1..Len(p_files)
  /\ p_pc = "convert"
  /\ PipeInitCommon

\* faulty variant: leaving the loop body ends the whole batch
BatchNextFileStops ==
  /\ p_i' = p_i + 1
  /\ p_j' = 1
  /\ p_pc' = "done"

\* "continue" and the end of the loop body: the next file, or the end of main
BatchNextFile ==
  /\ p_i' = p_i + 1
  /\ p_j' = 1
  /\ p_pc' = IF p_i + 1 > Len(p_files) THEN "done" ELSE "convert"

\* module2_batch_translator.py 157-160: tmp = convert_to_wav(file)
BatchConvert ==
  /\ p_kind = "batch" /\ p_pc = "convert"
  /\ IF ExtOf(p_files[p_i]) = "wav"
     THEN /\ p_wav' = "src"
          /\ p_tmp_exists' = p_tmp_exists
          /\ p_calls' = Append(p_calls, Made("convert", p_i, "", <<>>, TRUE))
          /\ p_pc' = "stt"
          /\ UNCHANGED <<p_i, p_j>>
     ELSE \E ok \in BOOLEAN, partial \in BOOLEAN :
            /\ p_wav' = IF ok THEN "tmp" ELSE "None"
            /\ p_tmp_exists' = (p_tmp_exists \/ ok \/ partial)
            /\ p_calls' = Append(p_calls, Made("convert", p_i, "", <<>>, ok))
            /\ IF ok THEN p_pc' = "stt" /\ UNCHANGED <<p_i, p_j>> ELSE BatchNextFile
  /\ p_text' = None
  /\ p_translations' = NoTranslations
  /\ UNCHANGED <<p_translated, p_present, p_outputs, p_log_entries, p_results,
                 p_status, p_body>>
  /\ PipeFrame

\* "os.remove(tmp) if os.path.exists(tmp)": tmp is "tmp.wav" or the input itself
BatchRemoveTmp ==
  /\ p_tmp_exists' = IF p_wav = "tmp" THEN FALSE ELSE p_tmp_exists
  /\ p_present' = IF p_wav = "src" THEN p_present \ {p_i} ELSE p_present

\* module2_batch_translator.py 162-166: text = speech_to_text(tmp)
BatchStt ==
  /\ p_kind = "batch" /\ p_pc = "stt"
  /\ \E r \in SttResults :
       /\ p_text' = r
       /\ p_calls' = Append(p_calls, Made("stt", p_i, "", <<>>, Truthy(r)))
       /\ IF Truthy(r)
          THEN /\ p_pc' = "language"
               /\ UNCHANGED <<p_i, p_j, p_tmp_exists, p_present>>
          ELSE /\ BatchRemoveTmp
               /\ BatchNextFile
  /\ UNCHANGED <<p_wav, p_translations, p_translated, p_outputs, p_log_entries,
                 p_results, p_status, p_body>>
  /\ PipeFrame

\* faulty variant: the row has cells only for the languages that were translated
LogEntryTranslatedOnly ==
  [input_file |-> p_files[p_i], recognized_text |-> p_text.val,
   translations |-> p_translations]

\* module2_batch_translator.py 188-192: the row of the run log for the
\* current file, with translations.get(code, '') for every code of TARGET_LANGS
LogEntry ==
  [input_file |-> p_files[p_i], recognized_text |-> p_text.val,
   translations |-> [c \in TARGET_LANGS |->
                       IF c \in DOMAIN p_translations THEN p_translations[c] ELSE <<>>]]

\* module2_batch_translator.py 199-204: the CSV file main writes at its end
LogFile ==
  [written |-> p_log_entries # <<>>,
   fieldnames |-> << <<"input_file">>, <<"recognized_text">> >>
                  \o [k \in 1..Len(LangOrder) |-> <<"translation_", LangOrder[k]>>],
   rows |-> p_log_entries]

\* module2_batch_translator.py 172-185: one target language
BatchLanguage ==
  /\ p_kind = "batch" /\ p_pc = "language" /\ p_j <= Len(p_langs)
  /\ LET code == p_langs[p_j] IN
     \E tr \in TrResults, tts_ok \in BOOLEAN :
       /\ p_translated' = tr
       /\ IF Truthy(tr)
          THEN /\ p_translations' = (code :> tr.val) @@ p_translations
               /\ p_calls' = p_calls \o << Made("translate", p_i, code, p_text.val, TRUE),
                                           Made("tts", p_i, code, tr.val, tts_ok) >>
               /\ p_outputs' = IF tts_ok THEN p_outputs \cup {BatchOutName(p_files[p_i], code)}
                               ELSE p_outputs
          ELSE /\ tts_ok
               /\ p_translations' = p_translations
               /\ p_calls' = Append(p_calls, Made("translate", p_i, code, p_text.val, FALSE))
               /\ p_outputs' = p_outputs
  /\ p_j' = p_j + 1
  /\ UNCHANGED <<p_pc, p_i, p_wav, p_text, p_tmp_exists, p_present, p_log_entries,
                 p_results, p_status, p_body>>
  /\ PipeFrame

\* module2_batch_translator.py 187-196: the log entry and the temp-file cleanup
BatchFinishFile ==
  /\ p_kind = "batch" /\ p_pc = "language" /\ p_j > Len(p_langs)
  /\ p_log_entries' = Append(p_log_entries, LogEntry)
  /\ BatchRemoveTmp
  /\ BatchNextFile
  /\ UNCHANGED <<p_wav, p_text, p_translations, p_translated, p_calls, p_outputs,
                 p_results, p_status, p_body>>
  /\ PipeFrame

\* ------------------ module 3: batch_realtime_translate and its pipeline
RealtimeInit ==
  /\ p_kind = "realtime"
  /\ p_files \in FileLists
  /\ p_langs \in {SubSeq(LangOrder, 1, n) : n \in 1..NLangs}
  /\ p_save_output \in BOOLEAN
  /\ p_deps_ok \in BOOLEAN
  /\ p_request = NoRequest
  /\ p_present = 1..Len(p_files)
  /\ p_pc = "convert"
  /\ PipeInitCommon

\* faulty variant: a returned invocation skips the file's other languages
RealtimeNextPairSkipsFile ==
  /\ p_j' = 1
  /\ p_i' = p_i + 1
  /\ p_pc' = IF p_i + 1 > Len(p_files) THEN "done" ELSE "convert"

\* realtime_translate_audio_file returned: the next language, file, or the end
RealtimeNextPair ==
  /\ p_j' = IF p_j < Len(p_langs) THEN p_j + 1 ELSE 1
  /\ p_i' = IF p_j < Len(p_langs) THEN p_i ELSE p_i + 1
  /\ p_pc' = IF p_j >= Len(p_langs) /\ p_i + 1 > Len(p_files) THEN "done" ELSE "convert"

\* module3_ott_realtime.py 262-279: check_dependencies and convert_to_wav
RealtimeConvert ==
  /\ p_kind = "realtime" /\ p_pc = "convert"
  /\ IF ~p_deps_ok
     THEN /\ RealtimeNextPair
          /\ UNCHANGED <<p_wav, p_tmp_exists, p_calls>>
     ELSE \E ok \in BOOLEAN :
            /\ p_wav' = IF ok THEN "tmp"
                        ELSE IF ExtOf(p_files[p_i]) = "wav" THEN "src" ELSE "None"
            /\ p_tmp_exists' = ok
            /\ p_calls' = Append(p_calls, Made("convert", p_i, p_langs[p_j], <<>>, p_wav' # "None"))
            /\ IF p_wav' # "None" THEN p_pc' = "stt" /\ UNCHANGED <<p_i, p_j>>
               ELSE RealtimeNextPair
  /\ p_text' = None
  /\ p_translated' = None
  /\ UNCHANGED <<p_translations, p_present, p_outputs, p_log_entries, p_results,
                 p_status, p_body>>
  /\ PipeFrame

\* module3_ott_realtime.py 281-286
RealtimeStt ==
  /\ p_kind = "realtime" /\ p_pc = "stt"
  /\ \E r \in SttResults :
       /\ p_text' = r
       /\ p_calls' = Append(p_calls, Made("stt", p_i, p_langs[p_j], <<>>, Truthy(r)))
       /\ IF Truthy(r) THEN p_pc' = "translate" /\ UNCHANGED <<p_i, p_j>>
          ELSE RealtimeNextPair
  /\ UNCHANGED <<p_wav, p_translations, p_translated, p_tmp_exists, p_present, p_outputs,
                 p_log_entries, p_results, p_status, p_body>>
  /\ PipeFrame

\* module3_ott_realtime.py 291-296
RealtimeTranslate ==
  /\ p_kind = "realtime" /\ p_pc = "translate"
  /\ \E tr \in TrResults :
       /\ p_translated' = tr
       /\ p_calls' = Append(p_calls, Made("translate", p_i, p_langs[p_j], p_text.val, Truthy(tr)))
       /\ IF Truthy(tr) THEN p_pc' = "tts" /\ UNCHANGED <<p_i, p_j>>
          ELSE RealtimeNextPair
  /\ UNCHANGED <<p_wav, p_text, p_translations, p_tmp_exists, p_present, p_outputs,
                 p_log_entries, p_results, p_status, p_body>>
  /\ PipeFrame

\* module3_ott_realtime.py 301-323: synthesis and the result dictionary
RealtimeSynthesize ==
  /\ p_kind = "realtime" /\ p_pc = "tts"
  /\ LET code == p_langs[p_j]
         out == BatchOutName(p_files[p_i], code)
     IN
     \E tts_ok \in BOOLEAN :
       /\ ~p_save_output => tts_ok
       /\ p_calls' = IF p_save_output
                     THEN Append(p_calls, Made("tts", p_i, code, p_translated.val, tts_ok))
                     ELSE p_calls
       /\ p_outputs' = IF p_save_output /\ tts_ok THEN p_outputs \cup {out} ELSE p_outputs
       /\ p_results' = Append(p_results,
                              [input_file |-> p_files[p_i], target_language |-> code,
                               recognized_text |-> p_text.val,
                               translated_text |-> p_translated.val,
                               output_file |-> IF p_save_output THEN Some(out.name) ELSE None])
  /\ RealtimeNextPair
  /\ UNCHANGED <<p_wav, p_text, p_translations, p_translated, p_tmp_exists, p_present,
                 p_log_entries, p_status, p_body>>
  /\ PipeFrame

\* ----------------------------------------------- module 4: the HTTP routes
FileRoutes == {"upload", "mic_record"}

Routes == FileRoutes \cup {"translate_text", "youtube"}

\* app.py 96
ALLOWED_EXTENSIONS == {"mp3", "wav", "m4a", "flac", "ogg", "mp4", "avi", "mov", "mkv"}

\* app.py 99-101: '.' in filename and the last extension is allowed
allowed_file(name) == Len(name) >= 2 /\ ExtOf(name) \in ALLOWED_EXTENSIONS

\* the multipart payloads: no file field, an empty filename, a name without
\* extension, a text file, or an audio file
Uploads ==
  {<<>>} \cup { <<n>> : n \in FileNames \cup {<<>>, <<"README">>, <<"notes", "txt">>} }

\* the text field of /translate_text
RequestTexts == {<<>>, <<" ">>, <<"a">>, <<" ", "a">>}

\* app.py 820, 828
chunk_ms == 8000
MaxTotalMs == 60000

\* durations of the downloaded audio, in milliseconds
DurationsMs == {0, 5000, 16000, 61000}

\* faulty variant: the audio is not cut at 60 seconds
total_ms_uncut == p_request.duration_ms

\* app.py 827-828
total_ms == Min(p_request.duration_ms, MaxTotalMs)

\* app.py 839-840
ChunkOutName(start) ==
  [dir |-> "static", name |-> <<"yt_chunk_", ToString(start), ".mp3">>]

WebInit ==
  /\ p_kind \in Routes
  /\ p_files \in (IF p_kind \in FileRoutes THEN Uploads ELSE {<<>>})
  /\ p_langs \in { <<BatchLangs[n]>> : n \in 1..NLangs }
  /\ p_save_output = TRUE /\ p_deps_ok = TRUE
  /\ p_request \in [json : BOOLEAN,
                    text : IF p_kind = "translate_text" THEN RequestTexts ELSE {<<>>},
                    url : IF p_kind = "youtube" THEN {<<>>, <<" ">>, <<"u">>} ELSE {<<>>},
                    duration_ms : IF p_kind = "youtube" THEN DurationsMs ELSE {0}]
  /\ (p_kind # "translate_text") => p_request.json
  /\ p_present = {}
  /\ p_pc = "request"
  /\ PipeInitCommon

\* return jsonify(...), status
Respond(status, body) ==
  /\ p_status' = status
  /\ p_body' = body
  /\ p_pc' = "done"

\* app.py 585, 693
RecognitionFailureStatus == 400

\* faulty variant: every route answers a failed synthesis like /translate_text
SynthesisFailureSwallowed(route) == Respond(200, "success_no_audio")

\* app.py 603, 649-653, 702: the answer to a failed synthesis
SynthesisFailure(route) ==
  IF route = "translate_text" THEN Respond(200, "success_no_audio")
  ELSE Respond(500, "error")

\* app.py 546-566, 668-681: validation of the multipart request and file.save
WebRequest ==
  /\ p_kind \in FileRoutes /\ p_pc = "request"
  /\ IF p_files = <<>> \/ p_files[1] = <<>>
        \/ (p_kind = "upload" /\ ~allowed_file(p_files[1]))
     THEN /\ Respond(400, "error")
          /\ UNCHANGED <<p_present, p_calls>>
     ELSE \E raised \in BOOLEAN :
            /\ p_calls' = Append(p_calls, Made("save", 1, "", <<>>, ~raised))
            /\ p_present' = IF raised THEN p_present ELSE {1}
            /\ IF raised THEN Respond(500, "error")
               ELSE p_pc' = "convert" /\ UNCHANGED <<p_status, p_body>>
  /\ UNCHANGED <<p_i, p_j, p_wav, p_text, p_translations, p_translated, p_tmp_exists,
                 p_outputs, p_log_entries, p_results>>
  /\ PipeFrame

\* app.py 571-573, 685-687, 815-817: wav_file = convert_to_wav(file_path)
WebConvert ==
  /\ p_kind \in FileRoutes \cup {"youtube"} /\ p_pc = "convert"
  /\ \E ret \in {"tmp", "src", "None"}, partial \in BOOLEAN :
       /\ ret = "src" => ExtOf(p_files[1]) = "wav"
       /\ ret # "None" => ~partial
       /\ p_wav' = ret
       /\ p_tmp_exists' = (ret = "tmp" \/ partial)
       /\ p_calls' = Append(p_calls, Made("convert", 1, "", <<>>, ret # "None"))
       /\ IF ret = "None" THEN Respond(500, "error")
          ELSE /\ p_pc' = IF p_kind = "youtube" THEN "duration" ELSE "stt"
               /\ UNCHANGED <<p_status, p_body>>
  /\ UNCHANGED <<p_i, p_j, p_text, p_translations, p_translated, p_present, p_outputs,
                 p_log_entries, p_results>>
  /\ PipeFrame

\* app.py 583-585, 691-693
WebStt ==
  /\ p_kind \in FileRoutes /\ p_pc = "stt"
  /\ \E r \in SttResults :
       /\ p_text' = r
       /\ p_calls' = Append(p_calls, Made("stt", 1, "", <<>>, Truthy(r)))
       /\ IF Truthy(r) THEN p_pc' = "translate" /\ UNCHANGED <<p_status, p_body>>
          ELSE Respond(RecognitionFailureStatus, "error")
  /\ UNCHANGED <<p_i, p_j, p_wav, p_translations, p_translated, p_tmp_exists, p_present,
                 p_outputs, p_log_entries, p_results>>
  /\ PipeFrame

\* app.py 626-632: the JSON body of /translate_text
TextRequest ==
  /\ p_kind = "translate_text" /\ p_pc = "request"
  /\ IF ~p_request.json
     THEN /\ Respond(500, "error")
          /\ p_calls' = Append(p_calls, Made("parse", 1, "", <<>>, FALSE))
          /\ p_text' = p_text
     ELSE /\ p_calls' = p_calls
          /\ IF Strip(p_request.text) = <<>>
             THEN Respond(400, "error") /\ p_text' = p_text
             ELSE /\ p_text' = Some(Strip(p_request.text))
                  /\ p_pc' = "translate"
                  /\ UNCHANGED <<p_status, p_body>>
  /\ UNCHANGED <<p_i, p_j, p_wav, p_translations, p_translated, p_tmp_exists, p_present,
                 p_outputs, p_log_entries, p_results>>
  /\ PipeFrame

\* app.py 593-595, 635-637, 695-697
WebTranslate ==
  /\ p_kind \in FileRoutes \cup {"translate_text"} /\ p_pc = "translate"
  /\ \E tr \in TrResults :
       /\ p_translated' = tr
       /\ p_calls' = Append(p_calls, Made("translate", 1, p_langs[1], p_text.val, Truthy(tr)))
       /\ IF Truthy(tr) THEN p_pc' = "tts" /\ UNCHANGED <<p_status, p_body>>
          ELSE Respond(500, "error")
  /\ UNCHANGED <<p_i, p_j, p_wav, p_text, p_translations, p_tmp_exists, p_present,
                 p_outputs, p_log_entries, p_results>>
  /\ PipeFrame

\* app.py 599-615, 639-653, 699-715: synthesis, cleanup and the answer
WebTts ==
  /\ p_kind \in FileRoutes \cup {"translate_text"} /\ p_pc = "tts"
  /\ LET code == p_langs[1]
         out == IF p_kind = "upload" THEN UploadOutName(p_files[1], code)
                ELSE LiveOutName(code)
     IN
     \E tts_ok \in BOOLEAN :
       /\ p_calls' = Append(p_calls, Made("tts", 1, code, p_translated.val, tts_ok))
       /\ IF tts_ok
          THEN /\ p_outputs' = p_outputs \cup {out}
               /\ p_tmp_exists' = IF p_kind \in FileRoutes /\ p_wav = "tmp" THEN FALSE
                                  ELSE p_tmp_exists
               /\ p_present' = IF p_kind \in FileRoutes /\ p_wav = "src" THEN p_present \ {1}
                               ELSE p_present
               /\ Respond(200, "success")
          ELSE /\ UNCHANGED <<p_outputs, p_tmp_exists, p_present>>
               /\ SynthesisFailure(p_kind)
  /\ UNCHANGED <<p_i, p_j, p_wav, p_text, p_translations, p_translated, p_log_entries,
                 p_results>>
  /\ PipeFrame

\* app.py 803-814: the url field and download_youtube_audio_to_file
YoutubeRequest ==
  /\ p_kind = "youtube" /\ p_pc = "request"
  /\ IF Strip(p_request.url) = <<>>
     THEN /\ Respond(400, "error")
          /\ UNCHANGED <<p_files, p_present, p_calls>>
     ELSE \E ok \in BOOLEAN :
            /\ p_calls' = Append(p_calls, Made("download", 1, "", <<>>, ok))
            /\ p_files' = IF ok THEN << <<"yt_audio", "mp4">> >> ELSE p_files
            /\ p_present' = IF ok THEN {1} ELSE p_present
            /\ IF ok THEN p_pc' = "convert" /\ UNCHANGED <<p_status, p_body>>
               ELSE Respond(500, "error")
  /\ UNCHANGED <<p_i, p_j, p_wav, p_text, p_translations, p_translated, p_tmp_exists,
                 p_outputs, p_log_entries, p_results>>
  /\ UNCHANGED <<p_kind, p_langs, p_save_output, p_deps_ok, p_request, p_windows>>
  /\ UNCHANGED outside_pipe

\* app.py 820-829: the duration of the audio, by librosa
YoutubeDuration ==
  /\ p_kind = "youtube" /\ p_pc = "duration"
  /\ \E raised \in BOOLEAN :
       /\ p_calls' = Append(p_calls, Made("duration", 1, "", <<>>, ~raised))
       /\ IF raised THEN Respond(500, "error") /\ p_i' = p_i
          ELSE p_pc' = "chunks" /\ p_i' = 0 /\ UNCHANGED <<p_status, p_body>>
  /\ UNCHANGED <<p_j, p_wav, p_text, p_translations, p_translated, p_tmp_exists, p_present,
                 p_outputs, p_log_entries, p_results>>
  /\ PipeFrame

\* app.py 831-847: one window of the audio; p_i is "start"
YoutubeChunk ==
  /\ p_kind = "youtube" /\ p_pc = "chunks" /\ p_i < total_ms
  /\ LET start == p_i
         end == Min(start + chunk_ms, total_ms)
         code == p_langs[1]
     IN
     \E text \in {<<>>, <<"a">>}, tr \in TrResults, audio_ok \in BOOLEAN :
       /\ p_windows' = Append(p_windows, [start |-> start, end |-> end])
       /\ p_text' = Some(text)
       /\ IF text # <<>>
          THEN LET translated_text == IF Truthy(tr) THEN tr.val ELSE <<>>
                   spoken == IF translated_text # <<>> THEN translated_text ELSE <<" ">>
               IN
               /\ p_translated' = Some(translated_text)
               /\ p_calls' = p_calls \o << Made("stt", start, "", <<>>, TRUE),
                                           Made("translate", start, code, text, Truthy(tr)),
                                           Made("tts", start, code, spoken, audio_ok) >>
               /\ p_outputs' = IF audio_ok THEN p_outputs \cup {ChunkOutName(start)}
                               ELSE p_outputs
               /\ p_results' = Append(p_results,
                                      [start |-> start \div 1000, original |-> text,
                                       translated |-> translated_text,
                                       audio |-> IF audio_ok THEN Some(ChunkOutName(start).name)
                                                 ELSE None])
          ELSE /\ tr = None /\ audio_ok
               /\ p_calls' = Append(p_calls, Made("stt", start, "", <<>>, FALSE))
               /\ UNCHANGED <<p_translated, p_outputs, p_results>>
  /\ p_i' = p_i + chunk_ms
  /\ UNCHANGED <<p_pc, p_j, p_wav, p_translations, p_tmp_exists, p_present, p_log_entries,
                 p_status, p_body>>
  /\ PipeParams

\* app.py 849-861: cleanup of the two files and the list of results
YoutubeFinish ==
  /\ p_kind = "youtube" /\ p_pc = "chunks" /\ p_i >= total_ms
  /\ p_tmp_exists' = FALSE
  /\ p_present' = {}
  /\ Respond(200, "list")
  /\ UNCHANGED <<p_i, p_j, p_wav, p_text, p_translations, p_translated, p_calls, p_outputs,
                 p_log_entries, p_results>>
  /\ PipeFrame

PipeInit == BatchInit \/ RealtimeInit \/ WebInit

PipeNext ==
  \/ BatchConvert \/ BatchStt \/ BatchLanguage \/ BatchFinishFile
  \/ RealtimeConvert \/ RealtimeStt \/ RealtimeTranslate \/ RealtimeSynthesize
  \/ WebRequest \/ WebConvert \/ WebStt \/ TextRequest \/ WebTranslate \/ WebTts
  \/ YoutubeRequest \/ YoutubeDuration \/ YoutubeChunk \/ YoutubeFinish

\* ------------------------------------------------- two concurrent runs
Runs == {1, 2}

ConcKinds == {"batch", "realtime", "upload", "mic_record", "youtube"}

\* input names of the two runs: two of them share the stem "song"
ConcNames == FileNames \cup { <<"song", "wav">> }

Path(dir, name) == [dir |-> dir, name |-> name]

\* where the run's input lies before the pipeline starts
InputPath(kind, name) ==
  IF kind \in FileRoutes THEN Path("uploads", Dotted(name))
  ELSE IF kind = "youtube" THEN Path(".", <<"yt_audio">>)
  ELSE Path("data", Dotted(name))

\* module2_batch_translator.py 51-55, module3_ott_realtime.py 97, app.py 105:
\* the path convert_to_wav hands to the recognizer
TmpPath(r, kind, name) ==
  IF kind = "batch"
  THEN IF ExtOf(name) = "wav" THEN InputPath(kind, name) ELSE Path(".", <<"tmp.wav">>)
  ELSE Path("tmp", <<"mktemp", ToString(r), ".wav">>)

\* module2 179, module3 304, app.py 600, 699, 839: the synthesized audio
OutPath(kind, name, code) ==
  CASE kind \in {"batch", "realtime"} -> BatchOutName(name, code)
    [] kind = "upload" -> UploadOutName(name, code)
    [] kind = "mic_record" -> LiveOutName(code)
    [] kind = "youtube" -> ChunkOutName(0)

\* the file system after run r wrote the path
Written(fs, r, path) == {e \in fs : e.path # path} \cup {[path |-> path, owner |-> r]}

Removed(fs, path) == {e \in fs : e.path # path}

\* whose content the path holds, -1 when there is no such file
Content(fs, path) ==
  IF \E e \in fs : e.path = path THEN (CHOOSE e \in fs : e.path = path).owner ELSE -1

ConcInit ==
  /\ c_kind \in [Runs -> ConcKinds]
  /\ c_input \in [Runs -> ConcNames]
  /\ c_input[1] # c_input[2]
  /\ \A r \in Runs : c_kind[r] = "youtube" => c_input[r] \in {<<"song", "mp3">>, <<"a", "b", "mp3">>}
  /\ c_lang \in [Runs -> {BatchLangs[n] : n \in 1..NLangs}]
  /\ c_pc = [r \in Runs |-> "receive"]
  /\ c_fs = { [path |-> InputPath(c_kind[r], c_input[r]), owner |-> r] :
                r \in {q \in Runs : c_kind[q] \in {"batch", "realtime"}} }
  /\ c_written = {}
  /\ c_heard = [r \in Runs |-> 0]

\* no concurrent runs
ConcOff ==
  /\ c_kind = [r \in Runs |-> "off"]
  /\ c_input = [r \in Runs |-> <<>>]
  /\ c_lang = [r \in Runs |-> ""]
  /\ c_pc = [r \in Runs |-> "off"]
  /\ c_fs = {}
  /\ c_written = {}
  /\ c_heard = [r \in Runs |-> 0]

ConcFrame == UNCHANGED <<c_kind, c_input, c_lang>> /\ UNCHANGED outside_conc

ConcWrite(r, path) ==
  /\ c_fs' = Written(c_fs, r, path)
  /\ c_written' = c_written \cup {[run |-> r, path |-> path]}

\* app.py 564-566, 679-681, 739: file.save(file_path), stream.download; the
\* batch drivers find their input in place
ConcReceive(r) ==
  /\ c_pc[r] = "receive"
  /\ IF c_kind[r] \in {"batch", "realtime"}
     THEN UNCHANGED <<c_fs, c_written>>
     ELSE ConcWrite(r, InputPath(c_kind[r], c_input[r]))
  /\ c_pc' = [c_pc EXCEPT ![r] = "convert"]
  /\ UNCHANGED c_heard
  /\ ConcFrame

\* convert_to_wav writes the normalized WAV (the batch driver takes a .wav as is)
ConcConvert(r) ==
  /\ c_pc[r] = "convert"
  /\ LET tmp_path == TmpPath(r, c_kind[r], c_input[r]) IN
     IF tmp_path = InputPath(c_kind[r], c_input[r])
     THEN UNCHANGED <<c_fs, c_written>>
     ELSE ConcWrite(r, tmp_path)
  /\ c_pc' = [c_pc EXCEPT ![r] = "stt"]
  /\ UNCHANGED c_heard
  /\ ConcFrame

\* speech_to_text opens the path convert_to_wav returned
ConcStt(r) ==
  /\ c_pc[r] = "stt"
  /\ c_heard' = [c_heard EXCEPT ![r] = Content(c_fs, TmpPath(r, c_kind[r], c_input[r]))]
  /\ c_pc' = [c_pc EXCEPT ![r] = "tts"]
  /\ UNCHANGED <<c_fs, c_written>>
  /\ ConcFrame

\* the synthesis adapter writes the audio file
ConcSynthesize(r) ==
  /\ c_pc[r] = "tts"
  /\ ConcWrite(r, OutPath(c_kind[r], c_input[r], c_lang[r]))
  /\ c_pc' = [c_pc EXCEPT ![r] = "cleanup"]
  /\ UNCHANGED c_heard
  /\ ConcFrame

\* module2 195-196, app.py 606-607, 704-706, 849-859: os.remove of the
\* temporary WAV; module 3 removes nothing
ConcCleanup(r) ==
  /\ c_pc[r] = "cleanup"
  /\ LET tmp_path == TmpPath(r, c_kind[r], c_input[r])
         gone == IF c_kind[r] = "realtime" THEN c_fs ELSE Removed(c_fs, tmp_path)
     IN
     c_fs' = IF c_kind[r] = "youtube"
             THEN Removed(gone, InputPath(c_kind[r], c_input[r]))
             ELSE gone
  /\ c_pc' = [c_pc EXCEPT ![r] = "done"]
  /\ UNCHANGED <<c_written, c_heard>>
  /\ ConcFrame

ConcNext ==
  \E r \in Runs :
    \/ ConcReceive(r) \/ ConcConvert(r) \/ ConcStt(r) \/ ConcSynthesize(r) \/ ConcCleanup(r)

\* ------------------------------------- module 4: youtube_transcribe_chunk
\* the windows youtube_translate passes for an audio of d milliseconds
WindowsOf(d) ==
  { [start |-> k * chunk_ms, end |-> Min(k * chunk_ms + chunk_ms, Min(d, MaxTotalMs))] :
      k \in {n \in 0..(MaxTotalMs \div chunk_ms) : n * chunk_ms < Min(d, MaxTotalMs)} }

\* app.py 772-773, in milliseconds: max(0.01, (end_ms - start_ms) / 1000.0)
SliceDurationMs(w) == IF w.end - w.start > 10 THEN w.end - w.start ELSE 10

ChunkInit ==
  /\ k_window \in UNION {WindowsOf(d) : d \in DurationsMs}
  /\ k_pc = "load"
  /\ k_chunk = NoFile
  /\ k_created = FALSE
  /\ k_path = "running"
  /\ k_ret = None

\* youtube_transcribe_chunk is not running
ChunkOff ==
  /\ k_window = [start |-> 0, end |-> 0]
  /\ k_pc = "off" /\ k_chunk = NoFile /\ k_created = FALSE
  /\ k_path = "running" /\ k_ret = None

ChunkFrame == UNCHANGED k_window /\ UNCHANGED outside_chunk

\* faulty variant: "except" returns without passing through "finally"
AfterExceptNoFinally == "done"

\* app.py 783-790: "return" inside try/except still runs the finally block
AfterExcept == "finally"

\* a return statement of the try block or of the except block
ChunkLeave(path, text, target) ==
  /\ k_path' = path
  /\ k_ret' = Some(text)
  /\ k_pc' = target

\* app.py 777-779: librosa.load of the window; an empty slice returns ""
ChunkLoad ==
  /\ k_pc = "load"
  /\ \E outcome \in {"raised", "empty", "loaded"} :
       CASE outcome = "raised" -> ChunkLeave("load_raised", <<>>, AfterExcept)
         [] outcome = "empty" -> ChunkLeave("empty", <<>>, "finally")
         [] outcome = "loaded" -> k_pc' = "write" /\ UNCHANGED <<k_path, k_ret>>
  /\ UNCHANGED <<k_chunk, k_created>>
  /\ ChunkFrame

\* app.py 780: sf.write(tmp_chunk, y, 16000)
ChunkWrite ==
  /\ k_pc = "write"
  /\ \E raised \in BOOLEAN, f \in {NoFile, File(0), File(SliceDurationMs(k_window))} :
       /\ ~raised => f = File(SliceDurationMs(k_window))
       /\ k_chunk' = f
       /\ k_created' = f.exists
       /\ IF raised THEN ChunkLeave("write_raised", <<>>, AfterExcept)
          ELSE k_pc' = "stt" /\ UNCHANGED <<k_path, k_ret>>
  /\ ChunkFrame

\* app.py 781-782: text = speech_to_text(tmp_chunk); return (text or "").strip()
ChunkStt ==
  /\ k_pc = "stt"
  /\ \E raised \in BOOLEAN, text \in {None} \cup {Some(t) : t \in Texts} :
       IF raised THEN ChunkLeave("stt_raised", <<>>, AfterExcept)
       ELSE ChunkLeave("returned", Strip(IF Truthy(text) THEN text.val ELSE <<>>), "finally")
  /\ UNCHANGED <<k_chunk, k_created>>
  /\ ChunkFrame

\* app.py 786-790: os.remove(tmp_chunk); a missing file raises and is ignored
ChunkFinally ==
  /\ k_pc = "finally"
  /\ k_chunk' = NoFile
  /\ k_pc' = "done"
  /\ UNCHANGED <<k_created, k_path, k_ret>>
  /\ ChunkFrame

ChunkNext == ChunkLoad \/ ChunkWrite \/ ChunkStt \/ ChunkFinally

\* ------------------------------------------------------- specifications
InitStt == SttInit /\ ConvOff /\ TtsOff /\ PipeOff /\ ConcOff /\ ChunkOff

SpecStt == InitStt /\ [][SttNext]_vars

InitSttAny == SttInitAny /\ ConvOff /\ TtsOff /\ PipeOff /\ ConcOff /\ ChunkOff

SpecSttAny == InitSttAny /\ [][SttNext]_vars

InitConv == ConvInit /\ SttOff /\ TtsOff /\ PipeOff /\ ConcOff /\ ChunkOff

SpecConv == InitConv /\ [][ConvNext]_vars

InitTts == TtsInit /\ SttOff /\ ConvOff /\ PipeOff /\ ConcOff /\ ChunkOff

SpecTts == InitTts /\ [][TtsNext]_vars

InitPipe == PipeInit /\ SttOff /\ ConvOff /\ TtsOff /\ ConcOff /\ ChunkOff

SpecPipe == InitPipe /\ [][PipeNext]_vars

InitConc == ConcInit /\ SttOff /\ ConvOff /\ TtsOff /\ PipeOff /\ ChunkOff

SpecConc == InitConc /\ [][ConcNext]_vars

InitChunk == ChunkInit /\ SttOff /\ ConvOff /\ TtsOff /\ PipeOff /\ ConcOff

SpecChunk == InitChunk /\ [][ChunkNext]_vars

\* ===================================================== claims: transcriber
Ceil(a, b) == (a + b - 1) \div b

\* the run read every window and left the recognition part normally
SttCompleted == stt_pc \in {"join", "done"} /\ ~io_failed

Chunked == UseChunks(total_duration)

RECURSIVE Rungs_of(_)
Rungs_of(calls) == IF calls = <<>> THEN <<>> ELSE <<Head(calls).rung>> \o Rungs_of(Tail(calls))

IsPrefix(a, b) == Len(a) <= Len(b) /\ SubSeq(b, 1, Len(a)) = a

\* the texts of the windows whose ladder returned text that is not blank,
\* each trimmed, in window order
RECURSIVE SpokenTexts(_)
SpokenTexts(rets) ==
  IF rets = <<>> THEN <<>>
  ELSE (IF Head(rets).some /\ Strip(Head(rets).val) # <<>>
        THEN <<Strip(Head(rets).val)>> ELSE <<>>) \o SpokenTexts(Tail(rets))

\* the texts of the windows whose ladder returned a non-empty string, as returned
RECURSIVE RawTexts(_)
RawTexts(rets) ==
  IF rets = <<>> THEN <<>>
  ELSE (IF Truthy(Head(rets)) THEN <<Head(rets).val>> ELSE <<>>) \o RawTexts(Tail(rets))

C3_Ladder ==
  win_ret # <<>> =>
    LET ret == win_ret[Len(win_ret)]
        full == IF preferred_lang # "None"
                THEN <<"preferred", "auto", "en-US", "hi-IN">>
                ELSE <<"auto", "en-US", "hi-IN">>
    IN
    /\ Len(ladder) >= 1
    /\ Len(ladder) <= (IF preferred_lang # "None" THEN 4 ELSE 3)
    /\ IsPrefix(Rungs_of(ladder), full)
    /\ \A i \in 1..(Len(ladder) - 1) : ladder[i].raised
    /\ ret.some <=> ~ladder[Len(ladder)].raised
    /\ ret.some => ret.val = ladder[Len(ladder)].val
    /\ ~ret.some => Len(ladder) = Len(full)

\* C3 witness: with a hint present the hint and automatic detection raised and
\* the en-US rung returned text, so hi-IN was not called
C3_Witness ==
  /\ preferred_lang # "None"
  /\ Len(ladder) = 3
  /\ ladder[1].raised /\ ladder[2].raised
  /\ ~ladder[3].raised /\ ladder[3].rung = "en-US" /\ ladder[3].val = <<"a">>
  /\ win_ret[Len(win_ret)] = Some(<<"a">>)

\* C4: in chunked transcription a window whose ladder is exhausted adds no
\* text and does not abort the run: the texts kept are those of the other
\* windows, every later window is still recorded and recognized, and the text
\* of the other windows is returned.
C4_FailedWindowSkipped ==
  (max_chunk_seconds >= 1 /\ Chunked /\ ~io_failed
     /\ \E i \in 1..Len(win_ret) : ~win_ret[i].some) =>
    /\ texts = RawTexts(win_ret)
    /\ stt_pc \in {"chunk", "join", "done"}
    /\ stt_pc = "chunk" => LoopContinues(offset)
    /\ stt_pc \in {"join", "done"} =>
         /\ Len(windows) = Ceil(total_duration, ChunkTicks)
         /\ Len(win_ret) = Len(windows)
    /\ (stt_pc = "done" /\ SpokenTexts(win_ret) # <<>>) =>
         /\ stt_result.some
         /\ \A j \in 1..Len(SpokenTexts(win_ret)) :
              \E a, b \in 0..Len(stt_result.val) :
                 SubSeq(stt_result.val, a + 1, b) = SpokenTexts(win_ret)[j]

\* C4 witness: the first of three windows exhausted its ladder, the later two
\* were recognized and their text was returned
C4_Witness ==
  /\ stt_pc = "done" /\ ~io_failed /\ Chunked
  /\ Len(win_ret) = 3
  /\ ~win_ret[1].some
  /\ win_ret[2] = Some(<<"a">>) /\ win_ret[3] = Some(<<" ", "b">>)
  /\ stt_result = Some(<<"a", " ", "b">>)

\* C5: the returned transcript is the texts of exactly the windows that
\* produced text, in window order, joined by single spaces, with no extra
\* separator for a window without text.
C5_Transcript ==
  (stt_pc = "done" /\ ~io_failed /\ SpokenTexts(win_ret) # <<>>) =>
     stt_result = Some(Join(SpokenTexts(win_ret)))

\* C6 as stated: a failure result always means an I/O failure.
C6_FailureOnlyOnIO ==
  (stt_pc = "done" /\ ~stt_result.some) => io_failed

\* C6 amended: speech_to_text returns a transcript exactly when every window
\* was read and at least one window yielded text that is not blank; it returns
\* a failure when reading raised or when no window yielded such text.
C6_FailureCauses ==
  stt_pc = "done" =>
    (stt_result.some <=> (~io_failed /\ SpokenTexts(win_ret) # <<>>))

\* C6 witness: a readable three-window file where only the last window yielded
\* text returns a transcript
C6_Witness ==
  /\ stt_pc = "done" /\ ~io_failed
  /\ Len(win_ret) = 3
  /\ ~win_ret[1].some /\ ~win_ret[2].some
  /\ win_ret[3] = Some(<<"a">>)
  /\ stt_result = Some(<<"a">>)

\* ====================================================== claims: normalizer
RECURSIVE BackendsOf(_)
BackendsOf(log) == IF log = <<>> THEN <<>> ELSE <<Head(log).backend>> \o BackendsOf(Tail(log))

\* C7: the web module's convert_to_wav invokes its backends in the order
\* moviepy (container extensions only), ffmpeg, librosa, pydub, moviepy again;
\* a backend is invoked only after every earlier applicable one failed, none
\* is invoked after one produced the accepted output, and the source or None
\* is returned only after all of them failed.
C7_BackendOrder ==
  conv_mod = "web" =>
    LET order == IF audio_file.ext \in {"m4a", "mp4", "mov", "webm", "avi", "mkv", "flv"}
                 THEN <<"moviepy", "ffmpeg", "librosa", "pydub", "moviepy_final">>
                 ELSE <<"ffmpeg", "librosa", "pydub", "moviepy_final">>
        n == Len(conv_log)
    IN
    /\ IsPrefix(BackendsOf(conv_log), order)
    /\ \A i \in 1..(n - 1) : ~conv_log[i].ok
    /\ (n > 0 /\ conv_log[n].ok) => (conv_pc = "done" /\ conv_ret.kind = "tmp")
    /\ conv_ret.kind = "tmp" => (n > 0 /\ conv_log[n].ok)
    /\ conv_ret.kind \in {"src", "None"} => n = Len(order)

\* C7 witness: for a container file moviepy and ffmpeg failed, librosa
\* succeeded, and pydub was never invoked
C7_Witness ==
  /\ conv_mod = "web" /\ conv_pc = "done"
  /\ audio_file.ext = "m4a"
  /\ BackendsOf(conv_log) = <<"moviepy", "ffmpeg", "librosa">>
  /\ conv_log[3].ok
  /\ conv_ret.kind = "tmp"

\* C8: whenever a normalizer reports success for a readable input, the file it
\* returns is mono at 16000 Hz, also for inputs whose name ends in .wav.
C8_MonoSixteenK ==
  (audio_file.decodable /\ conv_ret.kind \in {"tmp", "src"}) =>
     (conv_ret.channels = 1 /\ conv_ret.rate = 16000)

\* C9: a normalizer returns the source itself only after a decoder read it
\* cleanly; a .wav file that no backend can decode yields a failure.
C9_SourceOnlyIfVerified ==
  /\ conv_ret.kind = "src" =>
       (audio_file.decodable /\ \E i \in 1..Len(conv_log) : conv_log[i].ok)
  /\ (conv_pc = "done" /\ audio_file.ext = "wav" /\ ~audio_file.decodable) =>
       conv_ret.kind = "None"

\* C10: when every backend failed, the failure returned by the web module's
\* convert_to_wav carries the message of each backend that was attempted.
C10_FailureCarriesErrors ==
  (conv_mod = "web" /\ conv_pc = "done" /\ conv_ret.kind = "None") =>
    \A i \in 1..Len(conv_log) : conv_log[i].backend \in conv_ret.errors

\* ======================================================= claims: synthesis
Succeeded(c) == ~c.raised /\ c.size > 0

Tried(b) == \E i \in 1..Len(tts_log) : tts_log[i].backend = b

\* C14: the web text_to_speech calls edge-tts first whenever it is installed
\* and a voice is mapped for the language; it calls gTTS if and only if edge-tts
\* is absent, has no voice for the language, raised, or left no non-empty
\* file; it returns True if and only if one of the two succeeded.
C14_BackendPreference ==
  (tts_mod = "web" /\ tts_pc # "edge") =>
    /\ Tried("edge") <=> (edge_tts_available /\ lang_code \in TARGET_LANGS)
    /\ Tried("edge") => tts_log[1].backend = "edge"
    /\ tts_pc = "done" =>
         /\ Tried("gtts") <=> ~(Tried("edge") /\ Succeeded(tts_log[1]))
         /\ tts_ret = "True" <=> \E i \in 1..Len(tts_log) : Succeeded(tts_log[i])
         /\ Len(tts_log) <= 2

\* C14 witness: edge-tts returned without error but left an empty file, and
\* gTTS then succeeded
C14_Witness ==
  /\ tts_mod = "web" /\ tts_pc = "done"
  /\ Len(tts_log) = 2
  /\ tts_log[1].backend = "edge" /\ ~tts_log[1].raised /\ tts_log[1].size = 0
  /\ tts_log[2].backend = "gtts" /\ Succeeded(tts_log[2])
  /\ tts_ret = "True"

\* C15: a synthesis adapter that reports success has written the file at
\* out_path, and one that reports failure leaves no file there.
C15_NoPartialFile ==
  tts_pc = "done" =>
    /\ tts_ret = "True" => output_file.exists
    /\ tts_ret = "False" => ~output_file.exists

\* C16: for each of the 12 supported codes and both genders the web adapter
\* resolves a voice: edge-tts, when installed, is given a voice for the code
\* and gender, and gTTS is given the code itself or, for pa and or, Hindi.
C16_VoiceForEveryLanguage ==
  (tts_mod = "web" /\ tts_pc # "edge"
     /\ lang_code \in {"en", "hi", "pa", "mr", "kn", "te", "ta", "gu", "ml", "bn", "or", "ur"}
     /\ gender \in {"male", "female"}) =>
    /\ edge_tts_available =>
         (tts_log # <<>> /\ tts_log[1].backend = "edge" /\ tts_log[1].voice # "None")
    /\ \A i \in 1..Len(tts_log) :
         tts_log[i].backend = "gtts" =>
           tts_log[i].voice = (IF lang_code \in {"pa", "or"} THEN "hi" ELSE lang_code)

\* C16 witness: Odia with a female voice went to edge-tts, which failed, and
\* then to gTTS with the Hindi voice
C16_Witness ==
  /\ tts_mod = "web" /\ tts_pc = "done"
  /\ lang_code = "or" /\ gender = "female"
  /\ Len(tts_log) = 2
  /\ tts_log[1].backend = "edge" /\ tts_log[1].voice = "or-IN-LekhaNeural"
  /\ tts_log[2].backend = "gtts" /\ tts_log[2].voice = "hi"

\* C17: in every module's adapter, when the neural backend is not used, a
\* request for "pa" or "or" is synthesized with the Hindi voice of gTTS.
C17_HindiSubstitute ==
  \A i \in 1..Len(tts_log) :
    (tts_log[i].backend = "gtts" /\ lang_code \in {"pa", "or"}) => tts_log[i].voice = "hi"

\* ---------------------------------------------- claims about the drivers
CallIdx == 1..Len(p_calls)

FileIdx == 1..Len(p_files)

LangIdx == 1..Len(p_langs)

\* a call of the stage was made for the file (and language), with the outcome
Called(stage, f, code, ok) ==
  \E k \in CallIdx :
    /\ p_calls[k].stage = stage /\ p_calls[k].file = f
    /\ p_calls[k].lang = code /\ p_calls[k].ok = ok

Attempted(stage, f, code) == Called(stage, f, code, TRUE) \/ Called(stage, f, code, FALSE)

\* C12: in both batch drivers a failed translation or synthesis for one
\* (file, language) pair does not stop the other languages: when the run
\* ends, module 2 has attempted translation for every target language of
\* every recognized file, module 3 has invoked its pipeline for every pair
\* and attempted translation wherever that invocation recognized text, and
\* an output {stem}_{lang}.mp3 exists for every pair whose translation and
\* synthesis both succeeded.
C12_OtherLanguagesContinue ==
  /\ (p_kind = "batch" /\ p_pc = "done") =>
       \A f \in FileIdx : Called("stt", f, "", TRUE) =>
         \A j \in LangIdx : Attempted("translate", f, p_langs[j])
  /\ (p_kind = "realtime" /\ p_pc = "done" /\ p_deps_ok) =>
       \A f \in FileIdx : \A j \in LangIdx :
         /\ Attempted("convert", f, p_langs[j])
         /\ Called("stt", f, p_langs[j], TRUE) => Attempted("translate", f, p_langs[j])
  /\ p_kind \in {"batch", "realtime"} =>
       \A f \in FileIdx : \A j \in LangIdx :
         (Called("translate", f, p_langs[j], TRUE) /\ Called("tts", f, p_langs[j], TRUE)) =>
           [dir |-> "outputs",
            name |-> StemOf(p_files[f]) \o <<"_", p_langs[j], ".mp3">>] \in p_outputs

\* a finished run where a file's first language failed in translation or
\* synthesis and a later language of the same file produced its output
C12_Witness ==
  /\ p_kind \in {"batch", "realtime"} /\ p_pc = "done"
  /\ \E f \in FileIdx : \E j1, j2 \in LangIdx :
       /\ j1 < j2
       /\ Called("translate", f, p_langs[j1], FALSE) \/ Called("tts", f, p_langs[j1], FALSE)
       /\ Called("tts", f, p_langs[j2], TRUE)
       /\ BatchOutName(p_files[f], p_langs[j2]) \in p_outputs

\* C13: in the batch driver of module 2 a file whose decoding or recognition
\* failed gets no translation and no synthesis call, and the batch goes on:
\* when main ends, conversion was attempted for every file of the list.
C13_FileFailureSkipsFile ==
  p_kind = "batch" =>
    /\ \A f \in FileIdx :
         (Called("convert", f, "", FALSE) \/ Called("stt", f, "", FALSE)) =>
           \A k \in CallIdx :
             p_calls[k].file = f => p_calls[k].stage \notin {"translate", "tts"}
    /\ p_pc = "done" => \A f \in FileIdx : Attempted("convert", f, "")

\* a finished batch whose first file failed and whose second file was
\* translated and synthesized
C13_Witness ==
  /\ p_kind = "batch" /\ p_pc = "done" /\ Len(p_files) >= 2
  /\ Called("convert", 1, "", FALSE) \/ Called("stt", 1, "", FALSE)
  /\ \E j \in LangIdx : Called("tts", 2, p_langs[j], TRUE)

\* C11: when a pipeline invocation ends, the temporary normalized WAV that
\* convert_to_wav created for it no longer exists, whether the invocation
\* succeeded or failed.
C11_TempWavRemoved ==
  (p_pc = "done" /\ p_wav = "tmp") => ~p_tmp_exists

\* the name without its last extension, the remaining parts joined by "."
WithoutExtension(name) ==
  [k \in 1..(2 * (Len(name) - 1) - 1) |-> IF k % 2 = 1 THEN name[(k + 1) \div 2] ELSE "."]

StemLangName(f, code) ==
  [dir |-> "outputs", name |-> WithoutExtension(p_files[f]) \o <<"_", code, ".mp3">>]

Failed(stage) == \E k \in CallIdx : p_calls[k].stage = stage /\ ~p_calls[k].ok

\* the request does not pass the route's validation
Invalid ==
  \/ p_kind \in FileRoutes /\ (p_files = <<>> \/ p_files[1] = <<>>)
  \/ p_kind = "upload" /\ p_files # <<>> /\ p_files[1] # <<>>
       /\ (Len(p_files[1]) < 2 \/ p_files[1][Len(p_files[1])] \notin ALLOWED_EXTENSIONS)
  \/ p_kind = "translate_text" /\ p_request.json /\ \A k \in 1..Len(p_request.text) : p_request.text[k] = " "
  \/ p_kind = "youtube" /\ \A k \in 1..Len(p_request.url) : p_request.url[k] = " "

\* C20 as stated: every endpoint answers a validation or recognition failure
\* with 4xx and an {error} body, a failed backend stage (conversion,
\* translation, synthesis, download) with 5xx, and never 2xx when a backend
\* stage of the request failed.
C20_FailureStatus ==
  (p_kind \in Routes /\ p_pc = "done") =>
    /\ (Invalid \/ (p_kind \in FileRoutes /\ Failed("stt"))) =>
         (p_status \in 400..499 /\ p_body = "error")
    /\ (Failed("convert") \/ Failed("translate") \/ Failed("tts") \/ Failed("download")) =>
         p_status \in 500..599

\* C20, amended: /upload and /mic_record answer a validation or recognition
\* failure with 400 and {error}, and a failed save, conversion, translation or
\* synthesis with 500 and {error}; /translate_text answers an empty text with
\* 400, a body that is not JSON or a failed translation with 500, and a
\* failed synthesis with 200 and a null audio_url; /youtube_translate answers
\* a missing url with 400, a failed download, conversion or duration probe
\* with 500, and otherwise 200 with the list of chunks, in which a chunk whose
\* translation failed has translated "" and a chunk whose synthesis failed has
\* audio null. An answer other than these 200s always has a failed stage or
\* an invalid request behind it.
C20_FailureAnswers ==
  (p_kind \in Routes /\ p_pc = "done") =>
    /\ Invalid => (p_status = 400 /\ p_body = "error")
    /\ p_kind \in FileRoutes =>
         /\ Failed("stt") => (p_status = 400 /\ p_body = "error")
         /\ (Failed("save") \/ Failed("convert") \/ Failed("translate") \/ Failed("tts")) =>
              (p_status = 500 /\ p_body = "error")
    /\ p_kind = "translate_text" =>
         /\ (Failed("parse") \/ Failed("translate")) => (p_status = 500 /\ p_body = "error")
         /\ Failed("tts") => (p_status = 200 /\ p_body = "success_no_audio")
    /\ p_kind = "youtube" =>
         /\ (Failed("download") \/ Failed("convert") \/ Failed("duration")) =>
              (p_status = 500 /\ p_body = "error")
         /\ (~Invalid /\ ~Failed("download") /\ ~Failed("convert") /\ ~Failed("duration")) =>
              (p_status = 200 /\ p_body = "list")
         /\ \A k \in 1..Len(p_results) :
              LET ms == p_results[k].start * 1000 IN
              /\ Called("translate", ms, p_langs[1], FALSE) => p_results[k].translated = <<>>
              /\ Called("tts", ms, p_langs[1], FALSE) => p_results[k].audio = [some |-> FALSE, val |-> <<>>]
    /\ (p_status = 200 /\ p_body = "success") =>
         (~Invalid /\ \A k \in CallIdx : p_calls[k].ok)

\* /translate_text answered 200 although the synthesis of the request failed
C20_Witness ==
  /\ p_kind = "translate_text" /\ p_pc = "done"
  /\ Called("tts", 1, p_langs[1], FALSE)
  /\ p_status = 200 /\ p_body = "success_no_audio"

\* C19: two runs that execute concurrently on different inputs never write
\* the same path: no temporary file and no output file is written by both.
C19_NoSharedPath ==
  \A a, b \in c_written : a.path = b.path => a.run = b.run

\* ------------------------------------------------- claims about the run log
\* the files whose speech was recognized, in processing order
RecognizedFiles ==
  SelectSeq([f \in FileIdx |-> f], LAMBDA f : Called("stt", f, "", TRUE))

\* C21: when the batch driver ends, its run log has the columns input_file,
\* recognized_text and translation_{code} for each of the 12 languages, and
\* exactly one row, in processing order, for each file whose speech was
\* recognized; the cell of a language whose translation failed is empty, that
\* of a translated language is not, and a file whose decoding or recognition
\* failed has no row.
C21_RunLog ==
  (p_kind = "batch" /\ p_pc = "done") =>
    /\ LogFile.written <=> RecognizedFiles # <<>>
    /\ Len(LogFile.fieldnames) = 2 + 12
    /\ LogFile.fieldnames[1] = <<"input_file">>
    /\ LogFile.fieldnames[2] = <<"recognized_text">>
    /\ \A c \in {"en", "hi", "pa", "mr", "kn", "te", "ta", "gu", "ml", "bn", "or", "ur"} :
         \E k \in 3..14 : LogFile.fieldnames[k] = <<"translation_", c>>
    /\ Len(LogFile.rows) = Len(RecognizedFiles)
    /\ \A k \in 1..Len(LogFile.rows) :
         LET row == LogFile.rows[k]
             f == RecognizedFiles[k]
         IN
         /\ row.input_file = p_files[f]
         /\ row.recognized_text # <<>>
         /\ DOMAIN row.translations = {LogFile.fieldnames[n][2] : n \in 3..14}
         /\ \A j \in LangIdx :
              /\ Called("translate", f, p_langs[j], FALSE) => row.translations[p_langs[j]] = <<>>
              /\ Called("translate", f, p_langs[j], TRUE) => row.translations[p_langs[j]] # <<>>

\* a finished batch of two files: the first was not recognized, the second
\* was, with one language translated and another one failed
C21_Witness ==
  /\ p_kind = "batch" /\ p_pc = "done" /\ Len(p_files) = 2
  /\ Called("stt", 1, "", FALSE) /\ Called("stt", 2, "", TRUE)
  /\ \E j1, j2 \in LangIdx :
       Called("translate", 2, p_langs[j1], FALSE) /\ Called("translate", 2, p_langs[j2], TRUE)
  /\ Len(p_log_entries) = 1

\* ------------------------------------- claims about the translation adapter
\* C22: when the translation backend fails, the value translate_text returns
\* to its caller carries the target language code of the failed call.
C22_FailureCarriesLanguage ==
  (/\ p_calls # <<>>
   /\ p_calls[Len(p_calls)].stage = "translate"
   /\ ~p_calls[Len(p_calls)].ok
   /\ ~p_translated.some)
  => (/\ "lang" \in DOMAIN p_translated
      /\ p_translated.lang = p_calls[Len(p_calls)].lang)

\* ------------------------------------ claims about the web convert_to_wav
\* C23: the web module's convert_to_wav returns tmp only when the file the
\* winning backend wrote exists and is larger than the minimum byte size; a
\* backend that left an empty or too-small file does not win.
C23_SizeThreshold ==
  (conv_mod = "web" /\ conv_ret.kind = "tmp") => (tmp.exists /\ tmp.size > 100)

\* ------------------------------------- claims about the recognition ladder
\* C24: a rung that returned an empty string without raising does not win
\* the window: unless it is the last rung of the ladder, another rung is
\* called after it.
C24_EmptyRungDoesNotWin ==
  \A k \in 1..Len(ladder) :
    (~ladder[k].raised /\ ladder[k].val = <<>>) =>
      (k < Len(ladder) \/ k = (IF preferred_lang # "None" THEN 4 ELSE 3))

\* ------------------------------------------ claims about the adapter calls
\* C25: on every path of every driver and route the translation adapter and
\* the synthesis adapter are called with non-empty, non-blank text only.
C25_NonEmptyText ==
  \A k \in CallIdx :
    p_calls[k].stage \in {"translate", "tts"} =>
      \E n \in 1..Len(p_calls[k].arg) : p_calls[k].arg[n] # " "

\* ------------------------------------ claims about /youtube_translate
\* C26: youtube_translate hands youtube_transcribe_chunk consecutive
\* 8-second windows that start at 0 and cover at most the first 60 seconds
\* (at most 8 windows, only the last may be shorter); when it answers, the
\* list holds one entry per window that yielded text, in increasing start
\* order, with start the window start in whole seconds, and no entry for a
\* window without text.
C26_Windows ==
  p_kind = "youtube" =>
    LET cut == IF p_request.duration_ms < 60000 THEN p_request.duration_ms ELSE 60000
        withText == SelectSeq(p_windows,
                              LAMBDA w : Called("stt", w.start, "", TRUE))
    IN
    /\ Len(p_windows) <= 8
    /\ \A k \in 1..Len(p_windows) :
         /\ p_windows[k].start = (k - 1) * 8000
         /\ p_windows[k].end = (IF k * 8000 < cut THEN k * 8000 ELSE cut)
         /\ p_windows[k].start < p_windows[k].end
         /\ p_windows[k].end <= 60000
    /\ Len(p_results) = Len(withText)
    /\ \A k \in 1..Len(p_results) : p_results[k].start * 1000 = withText[k].start
    /\ \A k \in 1..(Len(p_results) - 1) : p_results[k].start < p_results[k + 1].start
    /\ (p_pc = "done" /\ p_status = 200) =>
         (p_windows = <<>> \/ p_windows[Len(p_windows)].end = cut)

\* a 61-second audio answered with 8 windows, the last one [56 s, 60 s), of
\* which some but not all yielded text
C26_Witness ==
  /\ p_kind = "youtube" /\ p_pc = "done" /\ p_status = 200
  /\ p_request.duration_ms > 60000
  /\ Len(p_windows) = 8
  /\ p_windows[8] = [start |-> 56000, end |-> 60000]
  /\ Len(p_results) \in 1..7

\* C27: after youtube_transcribe_chunk has returned, on whatever path (text,
\* the empty string of an empty slice, or an exception in loading, writing or
\* recognition), the temporary chunk file does not exist.
C27_ChunkFileRemoved ==
  k_pc = "done" => (k_ret.some /\ ~k_chunk.exists)

\* the slice was written, recognition raised, and the file is gone on return
C27_Witness ==
  /\ k_pc = "done" /\ k_path = "stt_raised"
  /\ k_created /\ ~k_chunk.exists

\* ------------------------------- claims about the loop of speech_to_text
\* C28: for every integer max_chunk_seconds, zero and negative values
\* included, every iteration of the chunking loop strictly increases the
\* offset, so that the loop reaches the total duration and terminates.
C28_OffsetIncreases ==
  [][(stt_pc = "chunk" /\ Len(windows') > Len(windows)) => offset' > offset]_vars

\* ------------------------------------ claims about files left by a run
\* C29: a batch run leaves every file of the input directory in place: its
\* cleanup removes only the temporary WAV it created, never an input file,
\* whatever the extension and on the failure and the success path alike.
C29_InputsKept ==
  p_kind = "batch" => p_present = 1..Len(p_files)

\* C30: every result of realtime_translate_audio_file has an output_file
\* that is None or the path of an audio file that synthesis wrote.
C30_OutputFileWritten ==
  p_kind = "realtime" =>
    \A k \in 1..Len(p_results) :
      p_results[k].output_file.some =>
        \E o \in p_outputs : o.name = p_results[k].output_file.val

====
